---- MODULE Spec2Model ----
(***************************************************************************)
(* A model of the FST reference decoder (sample_code/src/fst_reference):    *)
(* the ByteReader primitive layer, the hierarchy parser, the block walker   *)
(* and the VCDATA decoder.  Each component has its own specification        *)
(* (SpecReader, SpecHier, SpecWalker, SpecVc); the variables of the other   *)
(* components stay at their idle values.                                    *)
(*                                                                         *)
(* Bytes are naturals 0..255 and a buffer is a sequence of bytes; a Python  *)
(* offset o names element o+1 of the sequence.  Python integers are         *)
(* unbounded, so a ULEB128 result is kept as its sequence of 7-bit groups   *)
(* (little-endian base 128) and converted to a number only where the        *)
(* program uses it as one.                                                  *)
(***************************************************************************)
EXTENDS Integers, Sequences, FiniteSets, TLC

VARIABLES
    rdata, roff, rlast,
    hdata, hoff, hlist, hpc, herr, non_alias_var_count, hcalls, hstart,
    pdata, poff, positions, prev_alias, ppc, perr, pitems,
    vpayload, vpc, verr, vhd, vtl, vwave, vtimes, vpos, vrecs, vblobs,
    wfile, wpos, widx, wpc, werr, wblobs, wframes

readerVars == <<rdata, roff, rlast>>
hierVars == <<hdata, hoff, hlist, hpc, herr, non_alias_var_count, hcalls, hstart>>
posVars == <<pdata, poff, positions, prev_alias, ppc, perr, pitems>>
vcVars == <<vpayload, vpc, verr, vhd, vtl, vwave, vtimes, vpos, vrecs, vblobs>>
walkerVars == <<wfile, wpos, widx, wpc, werr, wblobs, wframes>>
vars == <<readerVars, hierVars, posVars, vcVars, walkerVars>>

(* What each component's actions leave alone. *)
notReader == <<hierVars, posVars, vcVars, walkerVars>>
notHier == <<readerVars, posVars, vcVars, walkerVars>>
notPos == <<readerVars, hierVars, vcVars, walkerVars>>
notVc == <<readerVars, hierVars, posVars, walkerVars>>
(* The walker's hierarchy decoders move the module counter of hier_data. *)
notWalker == <<readerVars, posVars, vcVars,
               hdata, hoff, hlist, hpc, herr, hcalls, hstart>>

----------------------------------------------------------------------------
(* Arithmetic helpers.                                                      *)

(* The element of a one-element set: Only({e(r) : r \in {v}}) computes v   *)
(* once and names it r in e.                                                *)
Only(S) == CHOOSE x \in S : TRUE

Min(a, b) == Only({ IF x <= y THEN x ELSE y : x \in {a}, y \in {b} })
Max(a, b) == Only({ IF x >= y THEN x ELSE y : x \in {a}, y \in {b} })

Rep(b, k) == [i \in 1..k |-> b]

(* struct.pack(">Q", n) for n < 65536. *)
BE8(n) == Rep(0, 6) \o <<n \div 256, n % 256>>

RECURSIVE Pow2(_)
Pow2(k) == IF k <= 0 THEN 1 ELSE 2 * Pow2(k - 1)

(* Numbers the model computes with are kept below this ceiling; a larger    *)
(* decoded quantity is carried as the ceiling itself, which every use below *)
(* (a clamp to a buffer length, a comparison with a small length) treats    *)
(* exactly as it treats the true value.                                     *)
NumCap == 1048576

(* The longest run of continuation bytes in a generated varint. *)
MaxRun == 11

----------------------------------------------------------------------------
(* ByteReader (block/common.py).  The reader is the pair (data, offset);    *)
(* each method is an operator from that pair to its result and the new      *)
(* offset.                                                                  *)

SEEK_SET == 0
SEEK_CUR == 1
SEEK_END == 2

Whences == {SEEK_SET, SEEK_CUR, SEEK_END}

(* The clamp to length lost: only negative offsets are clamped. *)
seek_NoUpperClamp(length, offset, off, whence) ==
    LET raw == IF whence = SEEK_SET THEN off
               ELSE IF whence = SEEK_CUR THEN offset + off
               ELSE length + off
    IN  IF whence \notin Whences THEN offset
        ELSE IF raw < 0 THEN 0 ELSE raw

(* seek: the new offset.  Another whence raises RuntimeError("invalid       *)
(* whence") before the offset is touched.                                   *)
seek(length, offset, off, whence) ==
    LET raw == IF whence = SEEK_SET THEN off
               ELSE IF whence = SEEK_CUR THEN offset + off
               ELSE length + off
        lo  == IF raw < 0 THEN 0 ELSE raw
    IN  IF whence \notin Whences THEN offset
        ELSE IF lo > length THEN length ELSE lo

remaining(data, offset) == Max(0, Len(data) - offset)

peek_bytes(data, offset, n) ==
    Only({ IF k <= 0 THEN <<>> ELSE SubSeq(data, o + 1, Min(o + k, Len(data))) :
           o \in {offset}, k \in {n} })

(* read_bytes moves the cursor by the number of bytes it returns. *)
read_bytes(data, offset, n) ==
    Only({ [bytes |-> ret, off |-> o + Len(ret)] :
           ret \in {peek_bytes(data, offset, n)}, o \in {offset} })

(* read_u8 .. read_double: read_bytes(width), then EOFError when short.     *)
(* The cursor has already been moved by read_bytes when the error is raised.*)
read_fixed(data, offset, width) ==
    Only({ [ok |-> Len(r.bytes) >= width, bytes |-> r.bytes, off |-> r.off] :
           r \in {read_bytes(data, offset, width)} })

(* The loop of read_uleb128 from position pos with the groups decoded so    *)
(* far; shift = 7 * Len(groups).                                            *)
RECURSIVE ULebLoop(_, _, _)
ULebLoop(data, pos, groups) ==
    IF pos >= Len(data) THEN [raised |-> FALSE, groups |-> groups, pos |-> pos]
    ELSE LET b  == data[pos + 1]
             g2 == Append(groups, b % 128)
         IN  IF b < 128 THEN [raised |-> FALSE, groups |-> g2, pos |-> pos + 1]
             ELSE IF 7 * Len(groups) > 63
                  THEN [raised |-> TRUE, groups |-> g2, pos |-> pos + 1]
                  ELSE ULebLoop(data, pos + 1, g2)

(* read_uleb128: (value, length_read) or RuntimeError("ULEB128 too large"); *)
(* the cursor is assigned only after the loop, so a raise leaves it alone.  *)
read_uleb128(data, offset) ==
    Only({ [ok     |-> ~r.raised,
            groups |-> IF r.raised THEN <<>> ELSE r.groups,
            length |-> IF r.raised THEN 0 ELSE r.pos - o,
            off    |-> IF r.raised THEN o ELSE r.pos] :
           r \in {ULebLoop(data, offset, <<>>)}, o \in {offset} })

(* The number a group sequence denotes, carried as NumCap when it is larger. *)
RECURSIVE GroupsVal(_, _)
GroupsVal(groups, i) ==
    IF i > Len(groups) THEN 0
    ELSE Min(NumCap, groups[i] + 128 * GroupsVal(groups, i + 1))

ULebVal(groups) == Only({ GroupsVal(g, 1) : g \in {groups} })

(* value < 2^64 on the group sequence: group k (1-based) weighs 2^(7(k-1)), *)
(* so group 10 may be at most 1 and every later group is 0.                 *)
Below2p64(groups) ==
    \A k \in 1..Len(groups) :
        /\ (k = 10 => groups[k] <= 1)
        /\ (k > 10 => groups[k] = 0)

(* read_sleb128: read_uleb128, then sign extension on 7 * length bits.  With *)
(* length = 0 (nothing left to read) the shift count bit_width - 1 is       *)
(* negative and Python raises ValueError.  neg/mag give the value           *)
(* (mag is carried as NumCap when larger).                                  *)
ComplGroups(groups) == [k \in 1..Len(groups) |-> 127 - groups[k]]

read_sleb128(data, offset) ==
    Only({ [ok     |-> u.ok /\ u.length > 0,
            value  |-> IF ~(u.ok /\ u.length > 0) THEN 0
                       ELSE IF u.groups[Len(u.groups)] >= 64
                            THEN 0 - Min(NumCap, ULebVal(ComplGroups(u.groups)) + 1)
                            ELSE ULebVal(u.groups),
            length |-> u.length,
            off    |-> u.off] :
           u \in {read_uleb128(data, offset)} })

(* read_u64_rev / read_bytes_rev: seek back n from the cursor (clamped at   *)
(* 0) and peek n bytes there; the reverse reads never fail on the seek.     *)
read_bytes_rev(data, offset, n) ==
    Only({ [bytes |-> peek_bytes(data, o2, n), off |-> o2] :
           o2 \in {seek(Len(data), offset, 0 - n, SEEK_CUR)} })

(* struct.unpack(">Q", peek_bytes(8)) raises struct.error on fewer than 8.  *)
read_u64_rev(data, offset) ==
    Only({ [ok |-> Len(r.bytes) = 8, bytes |-> r.bytes, off |-> r.off] :
           r \in {read_bytes_rev(data, offset, 8)} })

(* The position of the first NUL at or after pos, or Len(data) when none. *)
RECURSIVE ScanNul(_, _)
ScanNul(data, pos) ==
    IF pos < Len(data) /\ data[pos + 1] # 0 THEN ScanNul(data, pos + 1) ELSE pos

(* read_cstring: EOFError("unterminated cstring") leaves the cursor alone.  *)
read_cstring(data, offset) ==
    LET pos == ScanNul(data, offset)
    IN  IF pos >= Len(data)
        THEN [ok |-> FALSE, raw |-> <<>>, length |-> 0, off |-> offset]
        ELSE [ok |-> TRUE, raw |-> SubSeq(data, offset + 1, pos),
              length |-> pos - offset + 1, off |-> pos + 1]

(* Big-endian value of a byte string (struct.unpack ">Q" and the narrower   *)
(* unsigned formats), carried as NumCap when larger.                        *)
RECURSIVE BEVal(_, _)
BEVal(bytes, acc) ==
    IF bytes = <<>> THEN acc
    ELSE Only({ BEVal(Tail(bytes), a) : a \in {Min(NumCap, 256 * acc + Head(bytes))} })

U64(bytes) == Only({ BEVal(b, 0) : b \in {bytes} })

----------------------------------------------------------------------------
(* Hierarchy parser (block/hier_data.py).                                   *)
(*   hdata, hoff, hlist : data, off and data_list of parse_hier_binary      *)
(*   hpc                : "idle", "loop" (inside the while), "returned",    *)
(*                        "raised"; herr is the exception                   *)
(*   non_alias_var_count: the module-level _non_alias_var_count             *)
(*   hcalls             : parse_hier_binary invocations so far              *)
(*   hstart             : the counter's value when the current invocation   *)
(*                        began (history, for the claims)                   *)

VCD_EVENT == 0
SV_SHORTREAL == 29
GEN_ATTRBEGIN == 252
GEN_ATTREND == 253
VCD_SCOPE == 254
VCD_UPSCOPE == 255

(* The keys of _subparsers after the module's register_subparser(s) calls.  *)
Registered_Through30 ==
    (VCD_EVENT..SV_SHORTREAL + 1) \cup {GEN_ATTRBEGIN, GEN_ATTREND, VCD_SCOPE, VCD_UPSCOPE}

Registered ==
    (VCD_EVENT..SV_SHORTREAL) \cup {GEN_ATTRBEGIN, GEN_ATTREND, VCD_SCOPE, VCD_UPSCOPE}

(* A record of data_list.  Fields a record type does not have are left at   *)
(* their defaults (0, <<>>, FALSE).                                         *)
HRec(type) ==
    [type |-> type, offset |-> 0, num |-> 0, dir |-> 0, name |-> <<>>,
     component |-> <<>>, bit_length |-> 0, alias |-> 0, is_alias |-> FALSE,
     var_id |-> 0, subtype |-> 0, value1 |-> 0, value2 |-> 0]

(* What a subparser gives back: the record and the reader's new position    *)
(* (ok), or the exception it raised; count is _non_alias_var_count after.   *)
SubOk(obj, off, count) == [ok |-> TRUE, err |-> "", obj |-> obj, off |-> off, count |-> count]
SubRaise(err, count) == [ok |-> FALSE, err |-> err, obj |-> HRec(""), off |-> 0, count |-> count]

(* AssignVarId with the alias branch off by one (id = alias). *)
AssignVarId_AliasOffByOne(alias, count) ==
    IF alias = 0
    THEN [var_id |-> count, is_alias |-> FALSE, count |-> count + 1]
    ELSE [var_id |-> alias, is_alias |-> TRUE, count |-> count]

(* The id rule of _parse_var: alias == 0 takes the counter and increments   *)
(* it; alias > 0 refers to id alias - 1 and leaves the counter alone.       *)
AssignVarId(alias, count) ==
    IF alias = 0
    THEN [var_id |-> count, is_alias |-> FALSE, count |-> count + 1]
    ELSE [var_id |-> alias - 1, is_alias |-> TRUE, count |-> count]

parse_var(data, start, count) ==
    LET vt == read_fixed(data, start, 1)
        vd == read_fixed(data, vt.off, 1)
        nm == read_cstring(data, vd.off)
        vl == read_uleb128(data, nm.off)
        al == read_uleb128(data, vl.off)
        id == AssignVarId(ULebVal(al.groups), count)
    IN  IF ~vt.ok \/ ~vd.ok THEN SubRaise("EOFError", count)
        ELSE IF ~nm.ok THEN SubRaise("EOFError: unterminated cstring", count)
        ELSE IF ~vl.ok \/ ~al.ok THEN SubRaise("RuntimeError: ULEB128 too large", count)
        ELSE SubOk([HRec("VAR") EXCEPT !.num = vt.bytes[1], !.dir = vd.bytes[1],
                        !.name = nm.raw, !.bit_length = ULebVal(vl.groups),
                        !.alias = ULebVal(al.groups), !.is_alias = id.is_alias,
                        !.var_id = id.var_id],
                   al.off, id.count)

parse_scope(data, start, count) ==
    LET tag == read_fixed(data, start, 1)
        st  == read_fixed(data, tag.off, 1)
        nm  == read_cstring(data, st.off)
        cp  == read_cstring(data, nm.off)
    IN  IF start >= Len(data) THEN SubRaise("RuntimeError: offset out of range", count)
        ELSE IF remaining(data, tag.off) <= 0 THEN SubRaise("RuntimeError: truncated scope", count)
        ELSE IF ~nm.ok \/ ~cp.ok THEN SubRaise("EOFError: unterminated cstring", count)
        ELSE SubOk([HRec("SCOPE") EXCEPT !.num = st.bytes[1], !.name = nm.raw,
                        !.component = cp.raw],
                   cp.off, count)

parse_upscope(data, start, count) ==
    LET tag == read_fixed(data, start, 1)
    IN  IF ~tag.ok THEN SubRaise("EOFError", count)
        ELSE SubOk(HRec("UPSCOPE"), tag.off, count)

parse_attrend(data, start, count) ==
    LET tag == read_fixed(data, start, 1)
    IN  IF ~tag.ok THEN SubRaise("EOFError", count)
        ELSE SubOk(HRec("ATTREND"), tag.off, count)

parse_attrbegin(data, start, count) ==
    LET tag == read_fixed(data, start, 1)
        at  == read_fixed(data, tag.off, 1)
        sub == read_fixed(data, at.off, 1)
        \* subtype 4 or 5: varint, NUL, varint
        a1  == read_uleb128(data, sub.off)
        z   == read_fixed(data, a1.off, 1)
        a2  == read_uleb128(data, z.off)
        \* otherwise: cstring, varint
        str == read_cstring(data, sub.off)
        av  == read_uleb128(data, str.off)
    IN  IF ~tag.ok \/ ~at.ok THEN SubRaise("EOFError", count)
        ELSE IF at.bytes[1] # 0 THEN SubRaise("AssertionError: attrtype", count)
        ELSE IF ~sub.ok THEN SubRaise("EOFError", count)
        ELSE IF sub.bytes[1] \in {4, 5}
        THEN IF ~a1.ok THEN SubRaise("RuntimeError: ULEB128 too large", count)
             ELSE IF ~z.ok THEN SubRaise("EOFError", count)
             ELSE IF z.bytes[1] # 0 THEN SubRaise("AssertionError", count)
             ELSE IF ~a2.ok THEN SubRaise("RuntimeError: ULEB128 too large", count)
             ELSE SubOk([HRec("ATTRBEGIN") EXCEPT !.subtype = sub.bytes[1],
                             !.value1 = ULebVal(a1.groups), !.value2 = ULebVal(a2.groups)],
                        a2.off, count)
        ELSE IF ~str.ok THEN SubRaise("EOFError: unterminated cstring", count)
             ELSE IF ~av.ok THEN SubRaise("RuntimeError: ULEB128 too large", count)
             ELSE SubOk([HRec("ATTRBEGIN") EXCEPT !.subtype = sub.bytes[1],
                             !.name = str.raw, !.value1 = ULebVal(av.groups)],
                        av.off, count)

(* _subparsers[first](br) with br positioned at off. *)
Subparser(first, data, off, count) ==
    IF first = VCD_SCOPE THEN parse_scope(data, off, count)
    ELSE IF first = VCD_UPSCOPE THEN parse_upscope(data, off, count)
    ELSE IF first = GEN_ATTRBEGIN THEN parse_attrbegin(data, off, count)
    ELSE IF first = GEN_ATTREND THEN parse_attrend(data, off, count)
    ELSE parse_var(data, off, count)

MaxRecs == 3
MaxParses == 2

(* Hierarchy buffers: up to MaxRecs pieces, each one or two whole records,  *)
(* a record cut short, or an unregistered tag byte.                         *)
VarPlain   == <<16, 0, 97, 0, 1, 0>>
VarAlias2  == <<5, 1, 98, 0, 8, 2>>
ScopePiece == <<254, 0, 97, 0, 98, 0, 255>>
AttrPiece  == <<252, 0, 4, 3, 0, 7, 253>>
BadTag     == <<30>>
TruncVar   == <<16, 0, 97>>
HierPieces == { VarPlain, VarAlias2, ScopePiece, AttrPiece, BadTag, TruncVar }

RECURSIVE HierBuffersOf(_)
HierBuffersOf(n) ==
    IF n = 0 THEN { <<>> }
    ELSE LET prev == HierBuffersOf(n - 1)
         IN  prev \cup { b \o q : b \in prev, q \in HierPieces }

HierBuffers == HierBuffersOf(MaxRecs)

HierIdle ==
    /\ hdata = <<>>
    /\ hoff = 0
    /\ hlist = <<>>
    /\ hpc = "idle"
    /\ herr = ""
    /\ non_alias_var_count = 0
    /\ hcalls = 0
    /\ hstart = 0

(* The module has just been imported: the counter is 0 (hier_data.py:79). *)
HierInit == HierIdle

(* parse_hier_binary(data) is called: its locals are set up; the module     *)
(* counter is not touched.                                                  *)
HierCall ==
    /\ hpc \in {"idle", "returned", "raised"}
    /\ hcalls < MaxParses
    /\ \E data \in HierBuffers : hdata' = data
    /\ hoff' = 0
    /\ hlist' = <<>>
    /\ hpc' = "loop"
    /\ herr' = ""
    /\ hcalls' = hcalls + 1
    /\ hstart' = non_alias_var_count
    /\ UNCHANGED <<non_alias_var_count, notHier>>

(* One iteration of the while loop of parse_hier_binary: the new off,      *)
(* data_list and counter, or the exception.                                 *)
HierIter(data, off, list, count) ==
    LET first == data[off + 1]
        Raise(e, c) == [ok |-> FALSE, err |-> e, off |-> off, list |-> list, count |-> c]
    IN  IF first \notin Registered
        THEN Raise("RuntimeError: Unregistered hierarchy tag", count)
        ELSE Only({ IF ~r.ok THEN Raise(r.err, r.count)
                    ELSE IF r.off - off <= 0
                    THEN Raise("RuntimeError: non-positive consumed", r.count)
                    ELSE [ok |-> TRUE, err |-> "", off |-> off + (r.off - off),
                          list |-> Append(list, [r.obj EXCEPT !.offset = off]),
                          count |-> r.count] :
                    r \in {Subparser(first, data, seek(Len(data), 0, off, SEEK_SET), count)} })

(* parse_hier_binary(data) as a whole, started with the module counter at   *)
(* count: data_list and the counter afterwards, or the exception.           *)
RECURSIVE HierLoop(_, _, _, _)
HierLoop(data, off, list, count) ==
    IF off >= Len(data) THEN [ok |-> TRUE, err |-> "", list |-> list, count |-> count]
    ELSE Only({ IF ~r.ok THEN [ok |-> FALSE, err |-> r.err, list |-> <<>>, count |-> r.count]
                ELSE HierLoop(data, r.off, r.list, r.count) :
                r \in {HierIter(data, off, list, count)} })

parse_hier_binary(data, count) == HierLoop(data, 0, <<>>, count)

(* One iteration of the while loop. *)
HierStep ==
    /\ hpc = "loop"
    /\ hoff < Len(hdata)
    /\ \E r \in {HierIter(hdata, hoff, hlist, non_alias_var_count)} :
           /\ hoff' = r.off
           /\ hlist' = r.list
           /\ non_alias_var_count' = r.count
           /\ hpc' = IF r.ok THEN "loop" ELSE "raised"
           /\ herr' = r.err
    /\ UNCHANGED <<hdata, hcalls, hstart, notHier>>

(* The loop condition fails: the result dict is returned. *)
HierReturn ==
    /\ hpc = "loop"
    /\ hoff >= Len(hdata)
    /\ hpc' = "returned"
    /\ UNCHANGED <<hdata, hoff, hlist, herr, non_alias_var_count, hcalls, hstart, notHier>>

HierNext ==
    \/ HierCall
    \/ HierStep
    \/ HierReturn

----------------------------------------------------------------------------
(* Position stream (block/vcdata.py, _parse_position_data).                 *)
(*   pdata, poff  : the ByteReader over position_data                       *)
(*   positions    : the list being built                                    *)
(*   prev_alias   : the last negative value seen (0: none yet)              *)
(*   ppc          : "loop", "returned", "raised"; perr is the exception     *)
(*   pitems       : what each loop iteration decoded (history, for the      *)
(*                  claims): kind "sleb" with its value v, or kind "zeros"  *)
(*                  with its run length                                     *)

(* The shift forgotten: the varint itself is taken as the value. *)
Shr1_NoShift(x) == x

(* x >> 1 on a Python int is floor division by 2. *)
Shr1(x) == x \div 2

(* [0] * zero_len builds the whole run in memory before it is appended: a  *)
(* run the allocator cannot grant raises MemoryError (OverflowError from    *)
(* 2^63 entries on).  AllocLimit is the longest run the model's allocator   *)
(* grants.                                                                  *)
AllocLimit == 4096

(* The v == 0 branch with the repeat dropped: it appends 0. *)
AppendRepeat_Zero(pos, prev) == Append(pos, 0)

(* The v == 0 branch: positions.append(prev_alias). *)
AppendRepeat(pos, prev) == Append(pos, prev)

(* One iteration of the while loop of _parse_position_data, entered with    *)
(* br.remaining() > 0.                                                      *)
PosIter(data, off, pos, prev) ==
    LET first == peek_bytes(data, off, 1)[1]
        s     == read_sleb128(data, off)
        val   == Shr1(s.value)
        u     == read_uleb128(data, off)
        zlen  == Shr1(ULebVal(u.groups))
        Raise(e) == [ok |-> FALSE, err |-> e, off |-> off, positions |-> pos,
                     prev_alias |-> prev, item |-> [kind |-> "none", v |-> 0, run |-> 0]]
    IN  IF first % 2 # 0
        THEN IF ~s.ok THEN Raise("RuntimeError: ULEB128 too large")
             ELSE IF val > 0
             THEN [ok |-> TRUE, err |-> "", off |-> s.off, positions |-> Append(pos, val),
                   prev_alias |-> prev, item |-> [kind |-> "sleb", v |-> val, run |-> 0]]
             ELSE IF val < 0
             THEN [ok |-> TRUE, err |-> "", off |-> s.off, positions |-> Append(pos, val),
                   prev_alias |-> val, item |-> [kind |-> "sleb", v |-> val, run |-> 0]]
             ELSE IF prev = 0
             THEN [Raise("AssertionError: Previous alias has not been set")
                       EXCEPT !.off = s.off, !.item = [kind |-> "sleb", v |-> 0, run |-> 0]]
             ELSE [ok |-> TRUE, err |-> "", off |-> s.off, positions |-> AppendRepeat(pos, prev),
                   prev_alias |-> prev, item |-> [kind |-> "sleb", v |-> 0, run |-> 0]]
        ELSE IF ~u.ok THEN Raise("RuntimeError: ULEB128 too large")
             ELSE IF zlen > AllocLimit THEN Raise("MemoryError")
             ELSE [ok |-> TRUE, err |-> "", off |-> u.off, positions |-> pos \o Rep(0, zlen),
                   prev_alias |-> prev, item |-> [kind |-> "zeros", v |-> 0, run |-> zlen]]

(* _parse_position_data as a whole: the positions list, or the exception. *)
RECURSIVE PosLoop(_, _, _, _)
PosLoop(data, off, pos, prev) ==
    IF remaining(data, off) <= 0 THEN [ok |-> TRUE, err |-> "", positions |-> pos]
    ELSE Only({ IF ~r.ok THEN [ok |-> FALSE, err |-> r.err, positions |-> <<>>]
                ELSE PosLoop(data, r.off, r.positions, r.prev_alias) :
                r \in {PosIter(data, off, pos, prev)} })

parse_position_data(data) == PosLoop(data, 0, <<>>, 0)

MaxPosLen == 3

(* Position streams: every stream of up to MaxPosLen bytes over bytes that  *)
(* select each branch (01: v = 0; 03, 05: v = 1, 2; 7F, 7D: v = -1, -2;     *)
(* 00, 02, 04: zero runs of 0, 1, 2), and varints padded with up to MaxRun  *)
(* continuation bytes, with and without their final byte.                   *)
PosBytes == { 1, 3, 5, 127, 125, 0, 2, 4 }

RECURSIVE StreamsOf(_, _)
StreamsOf(alphabet, n) ==
    IF n = 0 THEN { <<>> }
    ELSE LET prev == StreamsOf(alphabet, n - 1)
         IN  prev \cup { b \o <<q>> : b \in prev, q \in alphabet }

PaddedVarints ==
    { <<h>> \o Rep(128, k) \o t : h \in {128, 129, 253}, k \in 0..MaxRun, t \in { <<>>, <<0>> } }

PosStreams ==
    StreamsOf(PosBytes, MaxPosLen)
        \cup PaddedVarints
        \cup { <<q>> \o v : q \in {125, 3}, v \in PaddedVarints }
        \cup { <<128, 128, 1>>, <<2, 128, 128, 64>> }

PosIdle ==
    /\ pdata = <<>>
    /\ poff = 0
    /\ positions = <<>>
    /\ prev_alias = 0
    /\ ppc = "idle"
    /\ perr = ""
    /\ pitems = <<>>

(* _parse_position_data(position_data) has been called: lines 82-84. *)
PosInit ==
    /\ pdata \in PosStreams
    /\ poff = 0
    /\ positions = <<>>
    /\ prev_alias = 0
    /\ ppc = "loop"
    /\ perr = ""
    /\ pitems = <<>>

PosStep ==
    /\ ppc = "loop"
    /\ remaining(pdata, poff) > 0
    /\ LET r == PosIter(pdata, poff, positions, prev_alias)
       IN  /\ poff' = r.off
           /\ positions' = r.positions
           /\ prev_alias' = r.prev_alias
           /\ ppc' = IF r.ok THEN "loop" ELSE "raised"
           /\ perr' = r.err
           /\ pitems' = IF r.item.kind # "none" THEN Append(pitems, r.item) ELSE pitems
    /\ UNCHANGED <<pdata, notPos>>

PosReturn ==
    /\ ppc = "loop"
    /\ remaining(pdata, poff) <= 0
    /\ ppc' = "returned"
    /\ UNCHANGED <<pdata, poff, positions, prev_alias, perr, pitems, notPos>>

PosNext ==
    \/ PosStep
    \/ PosReturn

----------------------------------------------------------------------------
(* VCDATA decoder (block/vcdata.py).  zlib and lz4 are libraries outside    *)
(* the program: a call to one either raises or returns some bytes, and the  *)
(* outcome is an input of the operator that makes the call.                 *)

(* A write_blob call: the file name fields (common.py:21) and, where a     *)
(* claim is about them, the facts of data_bytes (WithData).                 *)
NoData == [kind |-> "none"]

Blob(block_idx, block_type, offset, payload_len, sub_idx, ext) ==
    [block_idx |-> block_idx, block_type |-> block_type, offset |-> offset,
     payload_len |-> payload_len, sub_idx |-> sub_idx, ext |-> ext, data |-> NoData]

WithData(blob, data) == [blob EXCEPT !.data = data]

(* Two decoded varints are equal as Python ints: equal groups up to high    *)
(* zero groups.                                                             *)
RECURSIVE StripZeros(_)
StripZeros(groups) ==
    IF groups # <<>> /\ groups[Len(groups)] = 0
    THEN StripZeros(SubSeq(groups, 1, Len(groups) - 1))
    ELSE groups

NoHead == [ok |-> FALSE, err |-> "", off |-> 0, vc_start_time |-> 0, vc_end_time |-> 0,
           vc_memory_required |-> 0, bits_uncomp_len |-> 0, bits_comp_len |-> 0,
           bits_count |-> 0, dec_bits |-> <<>>, waves_count |-> 0, waves_packtype |-> 0]

(* _parse_head(br_head); zbits is what zlib.decompress does if called. *)
parse_head(data, zbits) ==
    Only({ Only({ Only({ Only({ Only({ Only({ Only({ Only({ Only({
        IF ~t1.ok \/ ~t2.ok \/ ~t3.ok THEN [NoHead EXCEPT !.err = "EOFError"]
        ELSE IF ~bul.ok \/ ~bcl.ok \/ ~bc.ok
        THEN [NoHead EXCEPT !.err = "RuntimeError: ULEB128 too large"]
        ELSE IF StripZeros(bcl.groups) # StripZeros(bul.groups) /\ ~zbits.ok
        THEN [NoHead EXCEPT !.err = "zlib.error"]
        ELSE IF ~wc.ok THEN [NoHead EXCEPT !.err = "RuntimeError: ULEB128 too large"]
        ELSE IF ~pt.ok THEN [NoHead EXCEPT !.err = "EOFError"]
        ELSE [ok |-> TRUE, err |-> "", off |-> pt.off,
              vc_start_time |-> U64(t1.bytes), vc_end_time |-> U64(t2.bytes),
              vc_memory_required |-> U64(t3.bytes),
              bits_uncomp_len |-> ULebVal(bul.groups), bits_comp_len |-> ULebVal(bcl.groups),
              bits_count |-> ULebVal(bc.groups),
              dec_bits |-> IF StripZeros(bcl.groups) # StripZeros(bul.groups)
                           THEN zbits.bytes ELSE bits.bytes,
              waves_count |-> ULebVal(wc.groups), waves_packtype |-> pt.bytes[1]] :
        pt   \in {read_fixed(data, wc.off, 1)} }) :
        wc   \in {read_uleb128(data, bits.off)} }) :
        bits \in {read_bytes(data, bc.off, ULebVal(bcl.groups))} }) :
        bc   \in {read_uleb128(data, bcl.off)} }) :
        bcl  \in {read_uleb128(data, bul.off)} }) :
        bul  \in {read_uleb128(data, t3.off)} }) :
        t3   \in {read_fixed(data, t2.off, 8)} }) :
        t2   \in {read_fixed(data, t1.off, 8)} }) :
        t1   \in {read_fixed(data, 0, 8)} })

NoTail == [ok |-> FALSE, err |-> "", off |-> 0, time_count |-> 0, time_uncomp_len |-> 0,
           time_comp_len |-> 0, dec_time |-> <<>>, position_length |-> 0,
           position_data |-> <<>>]

(* _parse_tail(br_tail); ztime is what zlib.decompress does if called. *)
parse_tail(data, ztime) ==
    IF Len(data) < 24 THEN [NoTail EXCEPT !.err = "RuntimeError: payload too short"]
    ELSE Only({ Only({ Only({ Only({ Only({ Only({
        IF ~tc.ok \/ ~tcl.ok \/ ~tul.ok THEN [NoTail EXCEPT !.err = "struct.error"]
        ELSE IF tcl.bytes # tul.bytes /\ ~ztime.ok THEN [NoTail EXCEPT !.err = "zlib.error"]
        ELSE IF ~pl.ok THEN [NoTail EXCEPT !.err = "struct.error"]
        ELSE [ok |-> TRUE, err |-> "", off |-> pd.off,
              time_count |-> U64(tc.bytes), time_uncomp_len |-> U64(tul.bytes),
              time_comp_len |-> U64(tcl.bytes),
              dec_time |-> IF tcl.bytes # tul.bytes THEN ztime.bytes ELSE td.bytes,
              position_length |-> U64(pl.bytes), position_data |-> pd.bytes] :
        pd  \in {read_bytes_rev(data, pl.off, U64(pl.bytes))} }) :
        pl  \in {read_u64_rev(data, td.off)} }) :
        td  \in {read_bytes_rev(data, tul.off, U64(tcl.bytes))} }) :
        tul \in {read_u64_rev(data, tcl.off)} }) :
        tcl \in {read_u64_rev(data, tc.off)} }) :
        tc  \in {read_u64_rev(data, seek(Len(data), 0, 0, SEEK_END))} })

(* payload[br_head.tell() : br_tail.tell()]: empty when head >= tail. *)
WaveRegion(data, head, tail) == SubSeq(data, head + 1, Min(tail, Len(data)))

(* The running sum lost: each delta is appended as it is. *)
RECURSIVE TimeLoop_NoSum(_, _, _, _, _)
TimeLoop_NoSum(data, off, left, cur, ts) ==
    IF left <= 0 THEN [ok |-> TRUE, err |-> "", timestamps |-> ts]
    ELSE Only({ IF ~d.ok
                THEN [ok |-> FALSE, err |-> "RuntimeError: ULEB128 too large", timestamps |-> <<>>]
                ELSE TimeLoop_NoSum(data, d.off, left - 1, cur,
                                    Append(ts, ULebVal(d.groups))) :
                d \in {read_uleb128(data, off)} })

(* _parse_time_data: expected_count varints, running sum. *)
RECURSIVE TimeLoop(_, _, _, _, _)
TimeLoop(data, off, left, cur, ts) ==
    IF left <= 0 THEN [ok |-> TRUE, err |-> "", timestamps |-> ts]
    ELSE Only({ IF ~d.ok
                THEN [ok |-> FALSE, err |-> "RuntimeError: ULEB128 too large", timestamps |-> <<>>]
                ELSE TimeLoop(data, d.off, left - 1, cur + ULebVal(d.groups),
                              Append(ts, cur + ULebVal(d.groups))) :
                d \in {read_uleb128(data, off)} })

parse_time_data(dec_time, expected_count) == TimeLoop(dec_time, 0, expected_count, 0, <<>>)

(* The first loop of _parse_wave_data: st = [prev, cur, offs, bytes] are     *)
(* prev_i_has_data, cur_offset, position_offsets, position_bytes; indices   *)
(* of the Python lists are 0-based, of the sequences 1-based.               *)
RECURSIVE SlotLoop_NoRunningSum(_, _, _)
SlotLoop_NoRunningSum(pos, i, st) ==
    IF i >= Len(pos) THEN st
    ELSE IF pos[i + 1] > 0
    THEN Only({ SlotLoop_NoRunningSum(pos, i + 1, st2) : st2 \in {
            [prev  |-> i,
             cur   |-> pos[i + 1] - 1,
             offs  |-> [st.offs EXCEPT ![i + 1] = pos[i + 1] - 1],
             bytes |-> IF st.prev # -1
                       THEN [st.bytes EXCEPT ![st.prev + 1] = pos[i + 1]]
                       ELSE st.bytes] } })
    ELSE SlotLoop_NoRunningSum(pos, i + 1, st)

RECURSIVE SlotLoop(_, _, _)
SlotLoop(pos, i, st) ==
    IF i >= Len(pos) THEN st
    ELSE IF pos[i + 1] > 0
    THEN Only({ SlotLoop(pos, i + 1, st2) : st2 \in {
            [prev  |-> i,
             cur   |-> st.cur + pos[i + 1],
             offs  |-> [st.offs EXCEPT ![i + 1] = st.cur + pos[i + 1]],
             bytes |-> IF st.prev # -1
                       THEN [st.bytes EXCEPT ![st.prev + 1] = pos[i + 1]]
                       ELSE st.bytes] } })
    ELSE SlotLoop(pos, i + 1, st)

Slots(wave, pos) ==
    LET z  == [k \in 1..Len(pos) |-> 0]
        st == SlotLoop(pos, 0, [prev |-> -1, cur |-> -1, offs |-> z, bytes |-> z])
    IN  [offs  |-> st.offs,
         bytes |-> IF st.prev # -1
                   THEN [st.bytes EXCEPT ![st.prev + 1] = Len(wave) - st.cur]
                   ELSE st.bytes]

(* What lz4.block.decompress does for variable i: "ok" (a result of the     *)
(* declared length), "mismatch" (a result of another length), "error".      *)
LzAt(lz, i) == IF i \in DOMAIN lz THEN lz[i] ELSE "ok"

(* entry["lz4_error"] when the RuntimeError of line 144 is what the except   *)
(* clause of line 147 caught.                                               *)
LengthMismatch ==
    "decompression error: CallVCDATA: wave data uncompressed length mismatch"

WaveEntry(i, type) ==
    [var_idx |-> i, type |-> type, offset |-> 0, uncompressed_length |-> 0,
     compressed_length |-> 0, lz4_error |-> "", alias_of |-> 0]

(* The second loop of _parse_wave_data. *)
RECURSIVE EntryLoop(_, _, _, _, _, _)
EntryLoop(wave, pos, sl, lz, i, out) ==
    IF i >= Len(pos) THEN [ok |-> TRUE, err |-> "", wave_json |-> out]
    ELSE IF pos[i + 1] > 0
    THEN LET o  == seek(Len(wave), 0, sl.offs[i + 1], SEEK_SET)
             u  == read_uleb128(wave, o)
             cl == sl.bytes[i + 1] - u.length
             d  == read_bytes(wave, u.off, cl)
         IN  IF ~u.ok
             THEN [ok |-> FALSE, err |-> "RuntimeError: ULEB128 too large", wave_json |-> <<>>]
             ELSE EntryLoop(wave, pos, sl, lz, i + 1,
                     Append(out, [WaveEntry(i, "has_data") EXCEPT
                         !.offset = sl.offs[i + 1],
                         !.uncompressed_length = ULebVal(u.groups),
                         !.compressed_length = cl,
                         !.lz4_error = IF LzAt(lz, i) = "ok" THEN ""
                                       ELSE IF LzAt(lz, i) = "mismatch"
                                       THEN LengthMismatch
                                       ELSE "decompression error"]))
    ELSE IF pos[i + 1] < 0
    THEN EntryLoop(wave, pos, sl, lz, i + 1,
             Append(out, [WaveEntry(i, "alias") EXCEPT !.alias_of = 0 - i - 1]))
    ELSE EntryLoop(wave, pos, sl, lz, i + 1, Append(out, WaveEntry(i, "no_change")))

parse_wave_data(wave, pos, lz) ==
    Only({ EntryLoop(wave, pos, sl, lz, 0, <<>>) : sl \in {Slots(wave, pos)} })

(* The six write_blob calls that end handle_vcdata, in order. *)
VcBlobs_ReusedName(idx, block_str, offset, payload_len) ==
    << Blob(idx, block_str, offset, payload_len, 0, "header.json"),
       Blob(idx, block_str, offset, payload_len, 0, "init_bits.txt"),
       Blob(idx, block_str, offset, payload_len, 0, "time_array.txt"),
       Blob(idx, block_str, offset, payload_len, 0, "position_array.txt"),
       Blob(idx, block_str, offset, payload_len, 0, "wave_data.bin"),
       Blob(idx, block_str, offset, payload_len, 0, "header.json") >>

VcBlobs(idx, block_str, offset, payload_len) ==
    << Blob(idx, block_str, offset, payload_len, 0, "header.json"),
       Blob(idx, block_str, offset, payload_len, 0, "init_bits.txt"),
       Blob(idx, block_str, offset, payload_len, 0, "time_array.txt"),
       Blob(idx, block_str, offset, payload_len, 0, "position_array.txt"),
       Blob(idx, block_str, offset, payload_len, 0, "wave_data.bin"),
       Blob(idx, block_str, offset, payload_len, 1, "wave_data.json") >>

(* handle_vcdata, one action per call it makes.                             *)
(*   vpayload : payload          vpc  : the call about to be made ("head",  *)
(*              "tail", "time", "position", "wave", "write"), "returned",   *)
(*              "raised", or "idle"; verr is the exception                  *)
(*   vhd, vtl : what _parse_head and _parse_tail returned (off is the       *)
(*              reader's cursor: br_head.tell(), br_tail.tell())            *)
(*   vwave    : wave_bin_data    vtimes, vpos, vrecs : time_array,          *)
(*              position_array, wave_data                                   *)
(*   vblobs   : the write_blob calls made                                   *)

(* Test payloads are laid out as the format lays a VCDATA block out: the    *)
(* head fields, the wave region, then position data, position_length, time  *)
(* data, time_uncomp_len, time_comp_len, time_count.  The declared lengths  *)
(* may disagree with the data.  Every number is below 128: one varint byte. *)

VcBits ==
    { [uncomp |-> 0, comp |-> 0, data |-> <<>>],
      [uncomp |-> 2, comp |-> 2, data |-> <<48, 49>>],
      [uncomp |-> 3, comp |-> 2, data |-> <<9, 9>>],
      [uncomp |-> 0, comp |-> 100, data |-> <<>>] }
VcWaves == { <<>>, <<1, 16>>, <<1, 16, 2, 17, 18>> }
VcPos ==
    { [data |-> <<>>, len |-> 0],
      [data |-> <<3>>, len |-> 1],
      [data |-> <<3, 5, 2>>, len |-> 3],
      [data |-> <<127, 1, 4>>, len |-> 3],
      [data |-> <<1>>, len |-> 1],
      [data |-> <<3, 5>>, len |-> 4] }
VcTimes ==
    { [data |-> <<>>, uncomp |-> 0, comp |-> 0, count |-> 0],
      [data |-> <<5, 7>>, uncomp |-> 2, comp |-> 2, count |-> 2],
      [data |-> <<9>>, uncomp |-> 4, comp |-> 1, count |-> 2],
      [data |-> <<5>>, uncomp |-> 1, comp |-> 1, count |-> 3],
      [data |-> <<>>, uncomp |-> 100, comp |-> 100, count |-> 0],
      [data |-> <<129, 1, 0>>, uncomp |-> 3, comp |-> 3, count |-> 2],
      [data |-> <<128, 0>>, uncomp |-> 2, comp |-> 2, count |-> 1],
      [data |-> <<5, 7>>, uncomp |-> 2, comp |-> 2, count |-> 1],
      [data |-> Rep(128, 11), uncomp |-> 11, comp |-> 11, count |-> 1] }

VcPayload(b, w, ps, t) ==
    Rep(0, 24) \o <<b.uncomp, b.comp, 1>> \o b.data \o <<1, 0>>
        \o w
        \o ps.data \o BE8(ps.len)
        \o t.data \o BE8(t.uncomp) \o BE8(t.comp) \o BE8(t.count)

VcPayloads ==
    { VcPayload(b, w, ps, t) : b \in VcBits, w \in VcWaves, ps \in VcPos, t \in VcTimes }
        \cup { Rep(0, 10), Rep(0, 24), Rep(0, 29) }

ZlibOutcomes ==
    { [ok |-> FALSE, bytes |-> <<>>], [ok |-> TRUE, bytes |-> <<5, 7>>] }
LzOutcomes ==
    { [i \in 0..2 |-> "ok"], [i \in 0..2 |-> "error"],
      [i \in 0..2 |-> IF i = 1 THEN "mismatch" ELSE "ok"] }

VcIdle ==
    /\ vpayload = <<>>
    /\ vpc = "idle"
    /\ verr = ""
    /\ vhd = NoHead
    /\ vtl = NoTail
    /\ vwave = <<>>
    /\ vtimes = <<>>
    /\ vpos = <<>>
    /\ vrecs = <<>>
    /\ vblobs = <<>>

(* handle_vcdata(payload, 0, "VCDATA_DYN_ALIAS2", 0, output_dir) has been   *)
(* called: lines 169-179.                                                   *)
VcInit ==
    /\ vpayload \in VcPayloads
    /\ vpc = "head"
    /\ verr = ""
    /\ vhd = NoHead
    /\ vtl = NoTail
    /\ vwave = <<>>
    /\ vtimes = <<>>
    /\ vpos = <<>>
    /\ vrecs = <<>>
    /\ vblobs = <<>>

VcHead ==
    /\ vpc = "head"
    /\ \E zbits \in ZlibOutcomes :
          \E r \in {parse_head(vpayload, zbits)} :
              /\ vhd' = r
              /\ vpc' = IF r.ok THEN "tail" ELSE "raised"
              /\ verr' = r.err
    /\ UNCHANGED <<vpayload, vtl, vwave, vtimes, vpos, vrecs, vblobs, notVc>>

VcTail ==
    /\ vpc = "tail"
    /\ \E ztime \in ZlibOutcomes :
          \E r \in {parse_tail(vpayload, ztime)} :
              /\ vtl' = r
              /\ vpc' = IF r.ok THEN "time" ELSE "raised"
              /\ verr' = r.err
              /\ vwave' = IF r.ok THEN WaveRegion(vpayload, vhd.off, r.off) ELSE vwave
    /\ UNCHANGED <<vpayload, vhd, vtimes, vpos, vrecs, vblobs, notVc>>

VcTime ==
    /\ vpc = "time"
    /\ \E r \in {parse_time_data(vtl.dec_time, vtl.time_count)} :
           /\ vtimes' = r.timestamps
           /\ vpc' = IF r.ok THEN "position" ELSE "raised"
           /\ verr' = r.err
    /\ UNCHANGED <<vpayload, vhd, vtl, vwave, vpos, vrecs, vblobs, notVc>>

VcPosition ==
    /\ vpc = "position"
    /\ \E r \in {parse_position_data(vtl.position_data)} :
           /\ vpos' = r.positions
           /\ vpc' = IF r.ok THEN "wave" ELSE "raised"
           /\ verr' = r.err
    /\ UNCHANGED <<vpayload, vhd, vtl, vwave, vtimes, vrecs, vblobs, notVc>>

VcWave ==
    /\ vpc = "wave"
    /\ \E lz \in LzOutcomes :
          \E r \in {parse_wave_data(vwave, vpos, lz)} :
              /\ vrecs' = r.wave_json
              /\ vpc' = IF r.ok THEN "write" ELSE "raised"
              /\ verr' = r.err
    /\ UNCHANGED <<vpayload, vhd, vtl, vwave, vtimes, vpos, vblobs, notVc>>

VcWrite ==
    /\ vpc = "write"
    /\ vblobs' = VcBlobs(0, "VCDATA_DYN_ALIAS2", 0, Len(vpayload))
    /\ vpc' = "returned"
    /\ UNCHANGED <<vpayload, verr, vhd, vtl, vwave, vtimes, vpos, vrecs, notVc>>

VcNext ==
    \/ VcHead
    \/ VcTail
    \/ VcTime
    \/ VcPosition
    \/ VcWave
    \/ VcWrite

----------------------------------------------------------------------------
(* Block decoders as whole calls (block/*.py).  A decoder returns or raises *)
(* after writing blobs; blobs are the write_blob calls it made, in order,   *)
(* and count is _non_alias_var_count afterwards.                            *)
(*                                                                         *)
(* handlers.py imports the decoders as handle_hdr, handle_geom,             *)
(* handle_hier_gz, handle_hier_lz4, handle_hier_lz4duo and handle_blackout; *)
(* the block modules define them as CallHDR, CallGEOM, CallHIER_GZ,         *)
(* CallHIER_LZ4, CallHIER_LZ4DUO and CallBLACKOUT.  The model binds each    *)
(* imported name to the function of the same block type.                    *)

HandlerRet(blobs, count) == [raised |-> FALSE, err |-> "", blobs |-> blobs, count |-> count]
HandlerRaise(err, blobs, count) == [raised |-> TRUE, err |-> err, blobs |-> blobs, count |-> count]

HDR_PAYLOAD_LEN == 321

CallHDR(payload, idx, block_str, offset, count) ==
    IF Len(payload) # HDR_PAYLOAD_LEN
    THEN HandlerRaise("RuntimeError: CallHDR: payload size shall be 321", <<>>, count)
    ELSE HandlerRet(<<Blob(idx, block_str, offset, Len(payload), 0, "json")>>, count)

(* The try block keeps every exception of the entry loop in result; then    *)
(* int(block_str) is evaluated for write_blob's block_type.  block_str is   *)
(* the registry name, "BLACKOUT", and int() of it raises ValueError before  *)
(* write_blob is entered.                                                   *)
IsDecimal(str) == str \in {"0", "1", "2", "3", "4", "5", "6", "7", "8", "254", "255"}

(* The entry loop of CallBLACKOUT at entry i: the entries appended and the   *)
(* exception the try block caught ("" when none).                           *)
RECURSIVE BlackoutEntries(_, _, _, _, _)
BlackoutEntries(payload, off, i, cnt, entries) ==
    IF i >= cnt THEN [entries |-> entries, error |-> ""]
    ELSE IF remaining(payload, off) <= 0
         THEN [entries |-> entries, error |-> "truncated entry"]
         ELSE Only({ IF ~ts.ok
                     THEN [entries |-> entries, error |-> "ULEB128 too large"]
                     ELSE BlackoutEntries(payload, ts.off, i + 1, cnt,
                              Append(entries, [state |-> payload[off + 1],
                                               timestamp |-> ULebVal(ts.groups)])) :
                     ts \in {read_uleb128(payload, off + 1)} })

(* result after the try block; count is set only when its varint was read. *)
BlackoutResult(payload) ==
    LET c == read_uleb128(payload, 0)
    IN  IF ~c.ok
        THEN [kind |-> "blackout", count |-> -1, entries |-> <<>>,
              error |-> "ULEB128 too large"]
        ELSE Only({ [kind |-> "blackout", count |-> ULebVal(c.groups),
                     entries |-> r.entries, error |-> r.error] :
                    r \in {BlackoutEntries(payload, c.off, 0, ULebVal(c.groups), <<>>)} })

CallBLACKOUT(payload, idx, block_str, offset, count) ==
    IF ~IsDecimal(block_str)
    THEN HandlerRaise("ValueError: invalid literal for int()", <<>>, count)
    ELSE HandlerRet(<<WithData(Blob(idx, block_str, offset, Len(payload) + 8, 0,
                                    "BLACKOUT.json"),
                               BlackoutResult(payload))>>, count)

(* The values loop of CallGEOM: n values read so far. *)
RECURSIVE GeomValues(_, _, _, _)
GeomValues(dec, off, n, count) ==
    IF ~(remaining(dec, off) > 0 /\ n < count) THEN [ok |-> TRUE, n |-> n]
    ELSE Only({ IF ~v.ok THEN [ok |-> FALSE, n |-> n]
                ELSE GeomValues(dec, v.off, n + 1, count) :
                v \in {read_uleb128(dec, off)} })

(* z is what zlib.decompress does if called. *)
CallGEOM(payload, idx, block_str, offset, z, count) ==
    LET payload_len == Len(payload)
        two == << Blob(idx, block_str, offset, payload_len, 0, "header.json"),
                  Blob(idx, block_str, offset, payload_len, 0, "dec.bin") >>
    IN  IF payload_len < 16
        THEN HandlerRaise("RuntimeError: CallGEOM: payload size shall be at least 16", <<>>, count)
        ELSE Only({ Only({ Only({ Only({
            IF ~(payload_len = ul + 16) /\ ~z.ok THEN HandlerRaise("zlib.error", <<>>, count)
            ELSE IF Len(dec) # ul
            THEN HandlerRaise("RuntimeError: CallGEOM: declared uncompressed length does not match",
                              <<>>, count)
            ELSE IF dec # <<>> /\ ~vals.ok
            THEN HandlerRaise("RuntimeError: ULEB128 too large", two, count)
            ELSE IF dec # <<>> /\ vals.n # cnt
            THEN HandlerRaise("RuntimeError: CallGEOM: parsed values but expected count", two, count)
            ELSE HandlerRet(
                     Append(two,
                            WithData(Blob(idx, block_str, offset, payload_len, 1, "values.json"),
                                     [kind |-> "values", count_expected |-> cnt,
                                      values_parsed |-> IF dec # <<>> THEN vals.n ELSE 0])),
                     count) :
            vals \in {GeomValues(dec, 0, 0, cnt)} }) :
            dec  \in {IF payload_len = ul + 16
                      THEN read_bytes(payload, 16, remaining(payload, 16)).bytes
                      ELSE z.bytes} }) :
            cnt  \in {U64(read_fixed(payload, 8, 8).bytes)} }) :
            ul   \in {U64(read_fixed(payload, 0, 8).bytes)} })

(* _write_hier_result: header.json and full.bin, then parse_hier_binary,    *)
(* whose exception propagates, then decoded.json.                           *)
write_hier_result(block_idx, offset, payload_len, block_str, final_bytes, count) ==
    LET two == << Blob(block_idx, block_str, offset, payload_len, 0, "header.json"),
                  Blob(block_idx, block_str, offset, payload_len, 0, "full.bin") >>
    IN  Only({ IF ~p.ok THEN HandlerRaise(p.err, two, p.count)
               ELSE HandlerRet(Append(two, Blob(block_idx, block_str, offset, payload_len,
                                                1, "decoded.json")),
                               p.count) :
               p \in {parse_hier_binary(final_bytes, count)} })

(* dec is what _try_gzip_decompress does: the bytes, or its RuntimeError. *)
CallHIER_GZ(payload, idx, block_str, offset, dec, count) ==
    IF Len(payload) < 8 THEN HandlerRet(<<>>, count)
    ELSE IF ~dec.ok
    THEN HandlerRaise("RuntimeError: gzip/zlib decompression failed", <<>>, count)
    ELSE write_hier_result(idx, offset, Len(payload) + 8, block_str, dec.bytes, count)

(* dec is what _try_lz4_decompress does: the bytes, or its RuntimeError. *)
CallHIER_LZ4(payload, idx, block_str, offset, dec, count) ==
    IF Len(payload) < 8 THEN HandlerRet(<<>>, count)
    ELSE IF ~dec.ok
    THEN HandlerRaise("RuntimeError: lz4 decompression not available", <<>>, count)
    ELSE write_hier_result(idx, offset, Len(payload) + 8, block_str, dec.bytes, count)

(* Two rounds of _try_lz4_decompress: outer, then dec (the final bytes). *)
CallHIER_LZ4DUO(payload, idx, block_str, offset, outer, dec, count) ==
    IF Len(payload) < 16 THEN HandlerRet(<<>>, count)
    ELSE IF ~outer.ok \/ ~dec.ok
    THEN HandlerRaise("RuntimeError: lz4 decompression not available", <<>>, count)
    ELSE write_hier_result(idx, offset, Len(payload), block_str, dec.bytes, count)

(* handle_vcdata as a whole call. *)
handle_vcdata(payload, idx, block_str, offset, zbits, ztime, lz, count) ==
    Only({ IF ~h.ok THEN HandlerRaise(h.err, <<>>, count)
           ELSE Only({ IF ~t.ok THEN HandlerRaise(t.err, <<>>, count)
               ELSE Only({ IF ~tm.ok THEN HandlerRaise(tm.err, <<>>, count)
                   ELSE Only({ IF ~ps.ok THEN HandlerRaise(ps.err, <<>>, count)
                       ELSE Only({ IF ~wd.ok THEN HandlerRaise(wd.err, <<>>, count)
                                   ELSE HandlerRet(VcBlobs(idx, block_str, offset, Len(payload)),
                                                   count) :
                           wd \in {parse_wave_data(WaveRegion(payload, h.off, t.off),
                                                   ps.positions, lz)} }) :
                       ps \in {parse_position_data(t.position_data)} }) :
                   tm \in {parse_time_data(t.dec_time, t.time_count)} }) :
               t \in {parse_tail(payload, ztime)} }) :
           h \in {parse_head(payload, zbits)} })

unsupported_block_handler(payload, idx, block_str, offset, count) ==
    HandlerRaise("RuntimeError: recognized but not yet supported", <<>>, count)

----------------------------------------------------------------------------
(* Block registry (block/handlers.py) and walker (parse_blocks.py).         *)
(*   wfile, wpos : the file's bytes and f.tell()                            *)
(*   widx        : idx                                                      *)
(*   wpc         : "idle", "loop" (at the top of the while), "returned",    *)
(*                 "raised"; werr is the exception                          *)
(*   wblobs      : every write_blob call so far, in order                   *)
(*   wframes     : one record per block header read (history, for the       *)
(*                 claims): where it was read, its type and length fields,  *)
(*                 the number of payload bytes read, the idx at that time   *)
(*                 and what became of it: "invalid_len", "unregistered",    *)
(*                 "raised" (the decoder raised) or "returned"              *)

HDR == 0
VCDATA == 1
BLACKOUT == 2
GEOM == 3
HIER_GZ == 4
VCDATA_DYN_ALIAS == 5
HIER_LZ4 == 6
HIER_LZ4DUO == 7
VCDATA_DYN_ALIAS2 == 8
ZWRAPPER == 254
SKIP == 255

BlockType ==
    { HDR, VCDATA, BLACKOUT, GEOM, HIER_GZ, VCDATA_DYN_ALIAS, HIER_LZ4, HIER_LZ4DUO,
      VCDATA_DYN_ALIAS2, ZWRAPPER, SKIP }

(* BLOCKS: type -> BlockHandler(name, handler).  The walker reads the two   *)
(* fields as block_entry["name"] and block_entry["handler"].                *)
BLOCKS ==
    [t \in { HDR, BLACKOUT, GEOM, HIER_GZ, HIER_LZ4, HIER_LZ4DUO, VCDATA, VCDATA_DYN_ALIAS,
             VCDATA_DYN_ALIAS2 } |->
        CASE t = HDR -> [name |-> "HDR", handler |-> "handle_hdr"]
          [] t = BLACKOUT -> [name |-> "BLACKOUT", handler |-> "handle_blackout"]
          [] t = GEOM -> [name |-> "GEOM", handler |-> "handle_geom"]
          [] t = HIER_GZ -> [name |-> "HIER_GZ", handler |-> "handle_hier_gz"]
          [] t = HIER_LZ4 -> [name |-> "HIER_LZ4", handler |-> "handle_hier_lz4"]
          [] t = HIER_LZ4DUO -> [name |-> "HIER_LZ4DUO", handler |-> "handle_hier_lz4duo"]
          [] t = VCDATA -> [name |-> "VCDATA", handler |-> "_unsupported_block_handler"]
          [] t = VCDATA_DYN_ALIAS ->
                 [name |-> "VCDATA_DYN_ALIAS", handler |-> "_unsupported_block_handler"]
          [] t = VCDATA_DYN_ALIAS2 -> [name |-> "VCDATA_DYN_ALIAS2", handler |-> "handle_vcdata"]]

(* What the libraries a decoder calls may do: d1 and d2 are the first and   *)
(* second decompression (zlib, gzip or lz4 as the decoder has it), lz the   *)
(* per-variable lz4 outcomes of the VCDATA wave table.                      *)
LibFail == [ok |-> FALSE, bytes |-> <<>>]
LibBytes(b) == [ok |-> TRUE, bytes |-> b]
LibOutcomes == { LibFail, LibBytes(<<>>), LibBytes(VarPlain), LibBytes(BadTag) }
LzOk == [i \in 0..2 |-> "ok"]

HandlerInputs(handler) ==
    IF handler \in {"handle_geom", "handle_hier_gz", "handle_hier_lz4"}
    THEN { [d1 |-> d, d2 |-> LibFail, lz |-> LzOk] : d \in LibOutcomes }
    ELSE IF handler = "handle_hier_lz4duo"
    THEN { [d1 |-> LibFail, d2 |-> LibFail, lz |-> LzOk] }
            \cup { [d1 |-> LibBytes(<<1>>), d2 |-> d, lz |-> LzOk] : d \in LibOutcomes }
    ELSE IF handler = "handle_vcdata"
    THEN { [d1 |-> LibFail, d2 |-> LibFail, lz |-> l] : l \in LzOutcomes }
    ELSE { [d1 |-> LibFail, d2 |-> LibFail, lz |-> LzOk] }

(* handler(payload, idx, block_entry["name"], offset, base_dir) *)
CallHandler(handler, payload, idx, block_str, offset, in, count) ==
    CASE handler = "handle_hdr" -> CallHDR(payload, idx, block_str, offset, count)
      [] handler = "handle_blackout" -> CallBLACKOUT(payload, idx, block_str, offset, count)
      [] handler = "handle_geom" -> CallGEOM(payload, idx, block_str, offset, in.d1, count)
      [] handler = "handle_hier_gz" -> CallHIER_GZ(payload, idx, block_str, offset, in.d1, count)
      [] handler = "handle_hier_lz4" -> CallHIER_LZ4(payload, idx, block_str, offset, in.d1, count)
      [] handler = "handle_hier_lz4duo" ->
             CallHIER_LZ4DUO(payload, idx, block_str, offset, in.d1, in.d2, count)
      [] handler = "handle_vcdata" ->
             handle_vcdata(payload, idx, block_str, offset, in.d1, in.d2, in.lz, count)
      [] OTHER -> unsupported_block_handler(payload, idx, block_str, offset, count)

(* The header at offset: b = f.read(1), len_bytes = f.read(8). *)
BlockTypeAt(file, offset) == read_fixed(file, offset, 1).bytes[1]
BlockLenAt(file, offset) == U64(read_bytes(file, offset + 1, 8).bytes)

(* payload_len = block_len - 8 dropped: the whole length is taken. *)
PayloadLen_Whole(block_len) == block_len

PayloadLen(block_len) == block_len - 8

(* The file position moved by payload_len even when the read was short. *)
ReadPayload_PastEnd(file, offset, block_len) ==
    [bytes |-> read_bytes(file, offset + 9, PayloadLen(block_len)).bytes,
     off   |-> offset + 9 + PayloadLen(block_len)]

(* payload = f.read(payload_len): what is left of the file when it is short. *)
ReadPayload(file, offset, block_len) == read_bytes(file, offset + 9, PayloadLen(block_len))

(* idx += 1 lost: the index stays. *)
NextIdx_Stuck(idx) == idx

NextIdx(idx) == idx + 1

Frame(offset, idx, block_type, block_len, got, outcome) ==
    [offset |-> offset, idx |-> idx, block_type |-> block_type, block_len |-> block_len,
     got |-> got, outcome |-> outcome]

(* Test files: up to MaxBlocks block images, then what may follow the last  *)
(* whole block: nothing, fewer than 9 stray bytes, or a block whose payload *)
(* is cut short by the end of the file.                                     *)
MaxBlocks == 2

BlockImage(type, block_len, payload) == <<type>> \o BE8(block_len) \o payload

HdrOk        == BlockImage(HDR, 329, Rep(0, 321))
HdrShort     == BlockImage(HDR, 11, <<1, 2, 3>>)
BlackoutOne  == BlockImage(BLACKOUT, 9, <<0>>)
BlackoutTwo  == BlockImage(BLACKOUT, 13, <<2, 0, 5, 1, 12>>)
BlackoutCut  == BlockImage(BLACKOUT, 11, <<2, 0, 5>>)
GeomOk       == BlockImage(GEOM, 25, BE8(1) \o BE8(1) \o <<5>>)
GeomBadCount == BlockImage(GEOM, 25, BE8(1) \o BE8(2) \o <<5>>)
GeomNoData   == BlockImage(GEOM, 24, BE8(0) \o BE8(2))
GeomNothing  == BlockImage(GEOM, 24, BE8(0) \o BE8(0))
HierGz       == BlockImage(HIER_GZ, 17, BE8(6) \o <<1>>)
HierGzShort  == BlockImage(HIER_GZ, 11, <<1, 2, 3>>)
HierLz4      == BlockImage(HIER_LZ4, 17, BE8(6) \o <<1>>)
HierDuo      == BlockImage(HIER_LZ4DUO, 25, BE8(6) \o BE8(3) \o <<1>>)
VcZero       == BlockImage(VCDATA_DYN_ALIAS2, 37, Rep(0, 29))
VcOld        == BlockImage(VCDATA, 8, <<>>)
VcAlias      == BlockImage(VCDATA_DYN_ALIAS, 9, <<7>>)
ZWrapped     == BlockImage(ZWRAPPER, 8, <<>>)
Skipped      == BlockImage(SKIP, 9, <<0>>)
Unknown      == BlockImage(9, 8, <<>>)
BadLen       == BlockImage(HDR, 3, <<>>)

BlockImages ==
    { HdrOk, HdrShort, BlackoutOne, BlackoutTwo, BlackoutCut, GeomOk, GeomBadCount, GeomNoData, GeomNothing, HierGz, HierGzShort, HierLz4,
      HierDuo, VcZero, VcOld, VcAlias, ZWrapped, Skipped, Unknown, BadLen }

FileTails == { <<>>, <<0, 0, 0>>, BlockImage(HIER_GZ, 28, <<1, 2>>) }

RECURSIVE FilesOf(_)
FilesOf(n) ==
    IF n = 0 THEN { <<>> }
    ELSE LET prev == FilesOf(n - 1)
         IN  prev \cup { f \o b : f \in prev, b \in BlockImages }

Files == { f \o t : f \in FilesOf(MaxBlocks), t \in FileTails }

WalkerIdle ==
    /\ wfile = <<>>
    /\ wpos = 0
    /\ widx = 0
    /\ wpc = "idle"
    /\ werr = ""
    /\ wblobs = <<>>
    /\ wframes = <<>>

(* extract_blocks has opened the file: idx = 0, f.seek(0) (lines 24-28). *)
WalkerInit ==
    /\ wfile \in Files
    /\ wpos = 0
    /\ widx = 0
    /\ wpc = "loop"
    /\ werr = ""
    /\ wblobs = <<>>
    /\ wframes = <<>>

(* remain < 9: break, and extract_blocks returns. *)
WalkerEnd ==
    /\ wpc = "loop"
    /\ Len(wfile) - wpos < 9
    /\ wpc' = "returned"
    /\ UNCHANGED <<wfile, wpos, widx, werr, wblobs, wframes, non_alias_var_count, notWalker>>

(* block_len < 8: the message is printed, break, extract_blocks returns. *)
WalkerInvalidLen ==
    /\ wpc = "loop"
    /\ Len(wfile) - wpos >= 9
    /\ BlockLenAt(wfile, wpos) < 8
    /\ wpos' = wpos + 9
    /\ wpc' = "returned"
    /\ wframes' = Append(wframes, Frame(wpos, widx, BlockTypeAt(wfile, wpos),
                                        BlockLenAt(wfile, wpos), 0, "invalid_len"))
    /\ UNCHANGED <<wfile, widx, werr, wblobs, non_alias_var_count, notWalker>>

(* BLOCKS.get(block_type) is None: RuntimeError after the payload was read. *)
WalkerUnregistered ==
    /\ wpc = "loop"
    /\ Len(wfile) - wpos >= 9
    /\ BlockLenAt(wfile, wpos) >= 8
    /\ BlockTypeAt(wfile, wpos) \notin DOMAIN BLOCKS
    /\ \E p \in {ReadPayload(wfile, wpos, BlockLenAt(wfile, wpos))} :
          /\ wpos' = p.off
          /\ wframes' = Append(wframes, Frame(wpos, widx, BlockTypeAt(wfile, wpos),
                                              BlockLenAt(wfile, wpos), Len(p.bytes),
                                              "unregistered"))
    /\ wpc' = "raised"
    /\ werr' = "RuntimeError: Unregistered block type"
    /\ UNCHANGED <<wfile, widx, wblobs, non_alias_var_count, notWalker>>

(* A registered block: the decoder is called with (payload, idx, name,      *)
(* offset, base_dir); its exception propagates, else idx += 1.              *)
WalkerHandle ==
    /\ wpc = "loop"
    /\ Len(wfile) - wpos >= 9
    /\ BlockLenAt(wfile, wpos) >= 8
    /\ BlockTypeAt(wfile, wpos) \in DOMAIN BLOCKS
    /\ \E p \in {ReadPayload(wfile, wpos, BlockLenAt(wfile, wpos))} :
       \E entry \in {BLOCKS[BlockTypeAt(wfile, wpos)]} :
       \E in \in HandlerInputs(entry.handler) :
       \E r \in {CallHandler(entry.handler, p.bytes, widx, entry.name, wpos, in,
                             non_alias_var_count)} :
          /\ wpos' = p.off
          /\ wblobs' = wblobs \o r.blobs
          /\ non_alias_var_count' = r.count
          /\ wframes' = Append(wframes, Frame(wpos, widx, BlockTypeAt(wfile, wpos),
                                              BlockLenAt(wfile, wpos), Len(p.bytes),
                                              IF r.raised THEN "raised" ELSE "returned"))
          /\ wpc' = IF r.raised THEN "raised" ELSE "loop"
          /\ werr' = r.err
          /\ widx' = IF r.raised THEN widx ELSE NextIdx(widx)
    /\ UNCHANGED <<wfile, notWalker>>

WalkerNext ==
    \/ WalkerEnd
    \/ WalkerInvalidLen
    \/ WalkerUnregistered
    \/ WalkerHandle

----------------------------------------------------------------------------
(* SpecReader: one ByteReader over a buffer, driven by arbitrary calls.     *)
(* rlast records the last call: the method, whether it returned (ok) or     *)
(* raised, the cursor before the call, and what it returned.                *)

ReaderTails == { <<>>, <<1>>, <<2>>, <<0, 65>> }
ReaderBuffers ==
    { Rep(c, k) \o t : c \in {128, 255}, k \in 0..MaxRun, t \in ReaderTails }
ReadSizes == { -1, 0, 1, 3, 8 }
SeekOffsets == { -9, -1, 0, 2, 9 }

NoCall == [op |-> "none", ok |-> TRUE, pre |-> 0, width |-> 0,
           bytes |-> <<>>, groups |-> <<>>, length |-> 0]

Called(op, ok, width, bytes, groups, length) ==
    [op |-> op, ok |-> ok, pre |-> roff, width |-> width,
     bytes |-> bytes, groups |-> groups, length |-> length]

ReaderInit ==
    /\ rdata \in ReaderBuffers
    /\ roff = 0
    /\ rlast = NoCall

ReaderIdle ==
    /\ rdata = <<>>
    /\ roff = 0
    /\ rlast = NoCall

Seek ==
    \E off \in SeekOffsets, whence \in Whences \cup {SEEK_END + 1} :
        /\ roff' = seek(Len(rdata), roff, off, whence)
        /\ rlast' = Called("seek", whence \in Whences, off, <<>>, <<>>, 0)
        /\ UNCHANGED rdata
        /\ UNCHANGED notReader

PeekBytes ==
    \E n \in ReadSizes :
        /\ rlast' = Called("peek_bytes", TRUE, n, peek_bytes(rdata, roff, n), <<>>, 0)
        /\ UNCHANGED <<rdata, roff>>
        /\ UNCHANGED notReader

ReadBytes ==
    \E n \in ReadSizes :
        LET r == read_bytes(rdata, roff, n)
        IN  /\ roff' = r.off
            /\ rlast' = Called("read_bytes", TRUE, n, r.bytes, <<>>, 0)
            /\ UNCHANGED rdata
            /\ UNCHANGED notReader

(* The eight fixed-width reads differ only in width and in the conversion   *)
(* of the bytes they return.                                                *)
FixedWidth(op) ==
    IF op \in {"read_u8", "read_i8"} THEN 1
    ELSE IF op = "read_u16" THEN 2
    ELSE IF op \in {"read_u32", "read_i32"} THEN 4
    ELSE 8

FixedOps == { "read_u8", "read_u16", "read_u32", "read_u64",
              "read_i8", "read_i32", "read_i64", "read_double" }

ReadFixed ==
    \E op \in FixedOps :
        LET r == read_fixed(rdata, roff, FixedWidth(op))
        IN  /\ roff' = r.off
            /\ rlast' = Called(op, r.ok, FixedWidth(op), r.bytes, <<>>, 0)
            /\ UNCHANGED rdata
            /\ UNCHANGED notReader

ReadULeb ==
    LET r == read_uleb128(rdata, roff)
    IN  /\ roff' = r.off
        /\ rlast' = Called("read_uleb128", r.ok, 0, <<>>, r.groups, r.length)
        /\ UNCHANGED rdata
        /\ UNCHANGED notReader

ReadSLeb ==
    LET r == read_sleb128(rdata, roff)
    IN  /\ roff' = r.off
        /\ rlast' = Called("read_sleb128", r.ok, 0, <<>>, <<>>, r.length)
        /\ UNCHANGED rdata
        /\ UNCHANGED notReader

ReadU64Rev ==
    LET r == read_u64_rev(rdata, roff)
    IN  /\ roff' = r.off
        /\ rlast' = Called("read_u64_rev", r.ok, 8, r.bytes, <<>>, 0)
        /\ UNCHANGED rdata
        /\ UNCHANGED notReader

ReadBytesRev ==
    \E n \in ReadSizes :
        LET r == read_bytes_rev(rdata, roff, n)
        IN  /\ roff' = r.off
            /\ rlast' = Called("read_bytes_rev", TRUE, n, r.bytes, <<>>, 0)
            /\ UNCHANGED rdata
            /\ UNCHANGED notReader

ReadCString ==
    LET r == read_cstring(rdata, roff)
    IN  /\ roff' = r.off
        /\ rlast' = Called("read_cstring", r.ok, 0, r.raw, <<>>, r.length)
        /\ UNCHANGED rdata
        /\ UNCHANGED notReader

ReaderNext ==
    \/ Seek
    \/ PeekBytes
    \/ ReadBytes
    \/ ReadFixed
    \/ ReadULeb
    \/ ReadSLeb
    \/ ReadU64Rev
    \/ ReadBytesRev
    \/ ReadCString

ReaderSpecInit ==
    /\ WalkerIdle
    /\ VcIdle
    /\ HierIdle
    /\ PosIdle
    /\ ReaderInit

SpecReader == ReaderSpecInit /\ [][ReaderNext]_vars

(* C7: every fixed-width read called with fewer bytes remaining than its    *)
(* width reports EOF and leaves the cursor where it was before the call.    *)
C7_FixedReadFailureKeepsCursor ==
    (rlast.op \in FixedOps /\ Len(rdata) - rlast.pre < rlast.width)
        => (~rlast.ok /\ roff = rlast.pre)

(* C8: a read_uleb128 call that returns gives a value below 2^64 and has    *)
(* advanced the cursor by the byte count it reports.                        *)
C8_ULebBelow2p64 ==
    (rlast.op = "read_uleb128" /\ rlast.ok)
        => (Below2p64(rlast.groups) /\ roff = rlast.pre + rlast.length)

HierSpecInit ==
    /\ WalkerIdle
    /\ VcIdle
    /\ ReaderIdle
    /\ PosIdle
    /\ HierInit

SpecHier == HierSpecInit /\ [][HierNext]_vars

----------------------------------------------------------------------------
(* Claims about the hierarchy parser (SpecHier).                            *)

IsVar(r) == r.type = "VAR"
NonAliasBefore(list, i) ==
    Cardinality({ j \in 1..(i - 1) : IsVar(list[j]) /\ list[j].alias = 0 })
NonAliasIn(list) == NonAliasBefore(list, Len(list) + 1)

(* C1: in every parse_hier_binary invocation the id counter starts at 0:    *)
(* the first VAR with alias == 0 of the buffer gets var_id 0, and when the  *)
(* invocation returns the counter equals the number of alias == 0 VAR       *)
(* records of that buffer alone.                                            *)
C1_CounterStartsAtZeroEachParse ==
    /\ \A i \in 1..Len(hlist) :
          (IsVar(hlist[i]) /\ hlist[i].alias = 0 /\ NonAliasBefore(hlist, i) = 0)
              => hlist[i].var_id = 0
    /\ (hpc = "returned") => (non_alias_var_count = NonAliasIn(hlist))

(* C2: within one invocation, with c the counter at its start, the k-th     *)
(* (from 0) VAR record with alias == 0 has var_id c + k and is_alias false, *)
(* every VAR with alias != 0 has var_id alias - 1 and is_alias true, and    *)
(* the counter has grown by exactly the number of alias == 0 records.       *)
C2_VarIdsSequentialWithinParse ==
    /\ \A i \in 1..Len(hlist) :
          IsVar(hlist[i]) =>
              IF hlist[i].alias = 0
              THEN /\ ~hlist[i].is_alias
                   /\ hlist[i].var_id = hstart + NonAliasBefore(hlist, i)
              ELSE /\ hlist[i].is_alias
                   /\ hlist[i].var_id = hlist[i].alias - 1
    /\ non_alias_var_count = hstart + NonAliasIn(hlist)

(* Alias fields 0, 0, 2 parsed with the counter at c = 2: ids 2, 3, 1. *)
C2_Witness ==
    /\ hpc = "returned"
    /\ hstart = 2
    /\ Len(hlist) = 3
    /\ \A i \in 1..3 : IsVar(hlist[i])
    /\ <<hlist[1].alias, hlist[2].alias, hlist[3].alias>> = <<0, 0, 2>>
    /\ <<hlist[1].var_id, hlist[2].var_id, hlist[3].var_id>> = <<2, 3, 1>>
    /\ hlist[3].is_alias

----------------------------------------------------------------------------
(* Claims about the position stream (SpecPos).                              *)

PosSpecInit ==
    /\ WalkerIdle
    /\ VcIdle
    /\ ReaderIdle
    /\ HierIdle
    /\ PosInit

SpecPos == PosSpecInit /\ [][PosNext]_vars

AssertFailed == "AssertionError: Previous alias has not been set"
TooLarge == "RuntimeError: ULEB128 too large"
AllocFailed == "MemoryError"

(* The number of list entries the first k decoded items stand for. *)
RECURSIVE ItemsLen(_, _)
ItemsLen(items, k) ==
    IF k = 0 THEN 0
    ELSE ItemsLen(items, k - 1) + (IF items[k].kind = "zeros" THEN items[k].run ELSE 1)

(* The value of the last item before k that decoded to v < 0 (0: none). *)
RECURSIVE LastAliasBefore(_, _)
LastAliasBefore(items, k) ==
    IF k <= 1 THEN 0
    ELSE IF items[k - 1].kind = "sleb" /\ items[k - 1].v < 0 THEN items[k - 1].v
    ELSE LastAliasBefore(items, k - 1)

(* A returned list has one entry per SLEB item and run-length entries per   *)
(* zero run. *)
PosLengthLaw ==
    (ppc = "returned") => (Len(positions) = ItemsLen(pitems, Len(pitems)))

(* Each v == 0 item either failed the assertion (no earlier v < 0) or       *)
(* appended a strictly negative entry equal to the most recent v < 0 one.   *)
PosRepeatLaw ==
    \A k \in 1..Len(pitems) :
        (pitems[k].kind = "sleb" /\ pitems[k].v = 0) =>
            IF LastAliasBefore(pitems, k) = 0
            THEN ppc = "raised" /\ perr = AssertFailed /\ k = Len(pitems)
            ELSE /\ ItemsLen(pitems, k) <= Len(positions)
                 /\ positions[ItemsLen(pitems, k)] < 0
                 /\ positions[ItemsLen(pitems, k)] = LastAliasBefore(pitems, k)

(* C10 as stated: the function either fails its assertion or returns a list *)
(* whose length is the sum of the zero runs plus the number of SLEB         *)
(* entries; v == 0 entries repeat the most recent v < 0 entry, and fail the *)
(* assertion when there is none.                                            *)
C10_AssertOrReturn ==
    /\ (ppc = "raised") => (perr = AssertFailed)
    /\ PosLengthLaw
    /\ PosRepeatLaw

(* C10 amended: besides the assertion, the function can raise the           *)
(* "ULEB128 too large" error of the varint reader, and the allocation error *)
(* of a zero run too long to build; the length and repeat laws hold as      *)
(* stated.                                                                  *)
C10_AssertTooLargeOrReturn ==
    /\ (ppc = "raised") => (perr \in {AssertFailed, TooLarge, AllocFailed})
    /\ PosLengthLaw
    /\ PosRepeatLaw

(* 7F 01 04 decoded: v = -1, v = 0 (repeat), a zero run of 2. *)
C10_Witness ==
    /\ ppc = "returned"
    /\ pdata = <<127, 1, 4>>
    /\ positions = <<-1, -1, 0, 0>>

(* C11 as stated: the stream 03 05 02 decodes to [1, -1, 0], and prev_alias *)
(* is -1 once the second entry has been decoded.                            *)
C11_Example_Alias ==
    (pdata = <<3, 5, 2>>) =>
        /\ (poff = 2 => prev_alias = -1)
        /\ (ppc = "returned" => positions = <<1, -1, 0>>)

(* C11 amended: 03 and 05 are the SLEB values 3 and 5, so v = 1 and v = 2,  *)
(* both positive; 02 is a zero run of 1.  The stream decodes to [1, 2, 0]   *)
(* and prev_alias stays 0 throughout.                                       *)
C11_Example_Lengths ==
    (pdata = <<3, 5, 2>>) =>
        /\ prev_alias = 0
        /\ ppc # "raised"
        /\ (poff = 2 => positions = <<1, 2>>)
        /\ (ppc = "returned" => positions = <<1, 2, 0>>)

C11_Witness ==
    /\ pdata = <<3, 5, 2>>
    /\ ppc = "returned"
    /\ poff = 3

----------------------------------------------------------------------------
(* Claims about the VCDATA decoder (SpecVc).                                *)

VcSpecInit ==
    /\ WalkerIdle
    /\ ReaderIdle
    /\ HierIdle
    /\ PosIdle
    /\ VcInit

SpecVc == VcSpecInit /\ [][VcNext]_vars

(* C9: whenever handle_vcdata decodes a payload without raising, the head   *)
(* cursor is at or before the tail cursor and the wave region has exactly   *)
(* tail_cursor - head_cursor bytes (crossed cursors are rejected).          *)
C9_CursorsNeverCross ==
    (vpc = "returned") =>
        (vhd.off <= vtl.off /\ Len(vwave) = vtl.off - vhd.off)

----------------------------------------------------------------------------
(* Claims about the walker (SpecWalker).                                    *)

WalkerSpecInit ==
    /\ ReaderIdle
    /\ HierIdle
    /\ PosIdle
    /\ VcIdle
    /\ WalkerInit

SpecWalker == WalkerSpecInit /\ [][WalkerNext]_vars

(* Frames the walker handed to a decoder. *)
Decoded(fr) == fr.outcome \in {"raised", "returned"}

(* The block's 9-byte header and whole payload lie inside the file. *)
WholeBlock(fr) == fr.block_len >= 8 /\ fr.offset + 9 + (fr.block_len - 8) <= Len(wfile)

(* C3: blocks are framed contiguously: the first header is read at 0, a     *)
(* header is read only where at least 9 bytes remain, and after a block     *)
(* whose header and whole payload are present exactly payload_len + 9 bytes *)
(* have been consumed (payload_len = length - 8), so that the next header   *)
(* is read at offset + 9 + payload_len; the walker returns without reading  *)
(* more once fewer than 9 bytes remain.                                     *)
C3_ContiguousFraming ==
    /\ \A k \in 1..Len(wframes) :
          /\ wframes[k].offset + 9 <= Len(wfile)
          /\ (k = 1 => wframes[k].offset = 0)
          /\ WholeBlock(wframes[k]) =>
                LET next == wframes[k].offset + 9 + (wframes[k].block_len - 8)
                IN  /\ wframes[k].got = wframes[k].block_len - 8
                    /\ (k < Len(wframes) => wframes[k + 1].offset = next)
                    /\ (k = Len(wframes) => wpos = next)
    /\ (wpc = "returned" /\ (wframes = <<>> \/ Decoded(wframes[Len(wframes)])))
          => Len(wfile) - wpos < 9

(* Two whole blocks framed back to back, the first with a payload, and the  *)
(* walker stopped on a rest of 1 to 8 bytes.                                *)
C3_Witness ==
    /\ Len(wframes) = 2
    /\ WholeBlock(wframes[1]) /\ wframes[1].block_len > 8
    /\ WholeBlock(wframes[2])
    /\ wframes[2].offset = wframes[1].block_len + 1
    /\ wpc = "returned"
    /\ Len(wfile) - wpos \in 1..8

(* C4: blocks are decoded in file order: the k-th decoder call gets index   *)
(* k - 1, the artifacts are written in non-decreasing block index and only  *)
(* for blocks handed to a decoder, a decoder that raised is the last one    *)
(* called, and once the walker has raised nothing more is decoded or        *)
(* written.                                                                 *)
C4_State ==
    /\ \A k \in 1..Len(wframes) :
          /\ Decoded(wframes[k]) => wframes[k].idx = k - 1
          /\ wframes[k].outcome # "returned" => (k = Len(wframes) /\ wpc # "loop")
          /\ wframes[k].outcome \in {"raised", "unregistered"} => wpc = "raised"
    /\ \A i, j \in 1..Len(wblobs) : i < j => wblobs[i].block_idx <= wblobs[j].block_idx
    /\ \A i \in 1..Len(wblobs) :
          \E k \in 1..Len(wframes) :
              /\ Decoded(wframes[k])
              /\ wblobs[i].block_idx = wframes[k].idx
              /\ wblobs[i].offset = wframes[k].offset

C4_DecodesInFileOrder ==
    /\ []C4_State
    /\ [][wpc = "raised" => (wblobs' = wblobs /\ wframes' = wframes /\ widx' = widx)]_vars

(* Block 0 decoded with an artifact, block 1 raised after writing its own,  *)
(* and a further block header lies unread behind it.                        *)
C4_Witness ==
    /\ Len(wframes) = 2
    /\ wframes[1].outcome = "returned"
    /\ wframes[2].outcome = "raised"
    /\ \E i, j \in 1..Len(wblobs) : wblobs[i].block_idx = 0 /\ wblobs[j].block_idx = 1
    /\ wpc = "raised"
    /\ Len(wfile) - wpos >= 9

(* C5: a block header whose length field is below 8 ends the walk in an     *)
(* error, not in the normal return that reaching the end of the file gives, *)
(* and neither that block nor a later one is handed to a decoder.           *)
C5_InvalidLengthIsError ==
    \A k \in 1..Len(wframes) :
        wframes[k].block_len < 8 =>
            /\ wpc = "raised"
            /\ ~Decoded(wframes[k])
            /\ k = Len(wframes)

(* C6: a block of a type in BlockType that has no implemented decoder makes *)
(* the walker raise the unsupported-block error, and the unregistered-type  *)
(* error is raised only for type bytes outside BlockType.                   *)
Implemented(t) == t \in DOMAIN BLOCKS /\ BLOCKS[t].handler # "_unsupported_block_handler"

C6_ClosedSetIsUnsupported ==
    \A k \in 1..Len(wframes) :
        /\ (wframes[k].block_len >= 8 /\ wframes[k].block_type \in BlockType
                /\ ~Implemented(wframes[k].block_type))
              => (wpc = "raised" /\ werr = "RuntimeError: recognized but not yet supported")
        /\ wframes[k].outcome = "unregistered" => wframes[k].block_type \notin BlockType

(* The minimal ULEB128 encoding of n. *)
RECURSIVE EncodeULeb(_)
EncodeULeb(n) ==
    IF n < 128 THEN <<n>> ELSE <<128 + (n % 128)>> \o EncodeULeb(n \div 128)

(* The successive differences of ts (the first from 0), each encoded. *)
RECURSIVE EncodeDiffs(_, _)
EncodeDiffs(ts, k) ==
    IF k = 0 THEN <<>>
    ELSE EncodeDiffs(ts, k - 1) \o EncodeULeb(ts[k] - (IF k = 1 THEN 0 ELSE ts[k - 1]))

NonDecreasing(ts) == \A i, j \in 1..Len(ts) : i <= j => ts[i] <= ts[j]

(* buf is exactly n varints, each of minimal length: n bytes below 128, the *)
(* last byte of buf among them, and none of them a 00 that follows a        *)
(* continuation byte.                                                       *)
CanonicalStream(buf, n) ==
    /\ Cardinality({ i \in 1..Len(buf) : buf[i] < 128 }) = n
    /\ (buf # <<>> => buf[Len(buf)] < 128)
    /\ \A i \in 2..Len(buf) : buf[i] = 0 => buf[i - 1] < 128

(* _parse_time_data has just returned. *)
TimeReturned == vpc = "position"

(* C12 as stated: for every buffer and count the function returns count     *)
(* non-decreasing timestamps whose re-encoded differences are the buffer.   *)
C12_TimeRoundTripAlways ==
    TimeReturned =>
        /\ Len(vtimes) = vtl.time_count
        /\ NonDecreasing(vtimes)
        /\ EncodeDiffs(vtimes, Len(vtimes)) = vtl.dec_time

(* C12 amended: whenever the function returns it returns count              *)
(* non-decreasing timestamps; the re-encoded differences are the buffer     *)
(* when the buffer is exactly count minimal-length varints.                 *)
C12_TimeRoundTripCanonical ==
    TimeReturned =>
        /\ Len(vtimes) = vtl.time_count
        /\ NonDecreasing(vtimes)
        /\ CanonicalStream(vtl.dec_time, vtl.time_count)
              => EncodeDiffs(vtimes, Len(vtimes)) = vtl.dec_time

(* 81 01 00 decoded with count 2: a two-byte delta 129, then delta 0. *)
C12_Witness ==
    /\ TimeReturned
    /\ vtl.dec_time = <<129, 1, 0>>
    /\ vtimes = <<129, 129>>
    /\ CanonicalStream(vtl.dec_time, vtl.time_count)

(* C13: CallGEOM returns only when it parsed as many values as the header   *)
(* declares, for a decompressed buffer of any length, 0 included: a         *)
(* values artifact is never written with a parsed count that differs from   *)
(* the declared one, and a GEOM block that is decoded without raising has   *)
(* its values artifact.                                                     *)
C13_GeomParsedEqualsCount ==
    /\ \A i \in 1..Len(wblobs) :
          wblobs[i].data.kind = "values"
              => wblobs[i].data.values_parsed = wblobs[i].data.count_expected
    /\ \A k \in 1..Len(wframes) :
          (wframes[k].block_type = GEOM /\ wframes[k].outcome = "returned") =>
              \E i \in 1..Len(wblobs) :
                  /\ wblobs[i].block_idx = wframes[k].idx
                  /\ wblobs[i].data.kind = "values"

(* C14: a BLACKOUT payload never makes the decoder raise.  The decoder      *)
(* emits exactly one artifact; when the payload ends before count entries   *)
(* were read the artifact carries an error and the entries read before it,  *)
(* and when all count entries are present (count = 0 included) it carries   *)
(* exactly count entries and no error.                                      *)
C14_BlackoutAlwaysEmits ==
    \A k \in 1..Len(wframes) :
        (wframes[k].block_type = BLACKOUT /\ Decoded(wframes[k])) =>
            /\ wframes[k].outcome = "returned"
            /\ Cardinality({ i \in 1..Len(wblobs) :
                               wblobs[i].block_idx = wframes[k].idx }) = 1
            /\ \A i \in 1..Len(wblobs) :
                  wblobs[i].block_idx = wframes[k].idx =>
                      /\ wblobs[i].data.kind = "blackout"
                      /\ IF wblobs[i].data.error = ""
                         THEN Len(wblobs[i].data.entries) = wblobs[i].data.count
                         ELSE Len(wblobs[i].data.entries) < wblobs[i].data.count

(* C15 (SpecHier): the tag bytes no sub-parser is registered for. *)
UnregisteredTags == 30..251

(* The records of data_list tile the parsed prefix: the first is at 0, the  *)
(* offsets increase strictly, and the last lies before the loop's off.      *)
HierTiled ==
    IF hlist = <<>> THEN hoff = 0
    ELSE /\ hlist[1].offset = 0
         /\ \A k \in 1..(Len(hlist) - 1) : hlist[k].offset < hlist[k + 1].offset
         /\ hlist[Len(hlist)].offset < hoff

C15_State ==
    /\ hpc \in {"loop", "returned"} => HierTiled
    /\ hpc = "returned" =>
          /\ hoff = Len(hdata)
          /\ \A k \in 1..Len(hlist) : hdata[hlist[k].offset + 1] \notin UnregisteredTags
    /\ (hpc = "raised" /\ hoff < Len(hdata) /\ hdata[hoff + 1] \in UnregisteredTags)
          => herr = "RuntimeError: Unregistered hierarchy tag"

(* One loop iteration that does not raise appends one record whose offset   *)
(* is the old off and moves off by the bytes consumed, at least 1; one at   *)
(* an unregistered tag raises the unregistered-tag error.                   *)
C15_Step ==
    (hpc = "loop" /\ hoff < Len(hdata) /\ hdata' = hdata /\ hcalls' = hcalls) =>
        IF hdata[hoff + 1] \in UnregisteredTags
        THEN hpc' = "raised" /\ herr' = "RuntimeError: Unregistered hierarchy tag"
        ELSE hpc' = "loop" =>
                /\ Len(hlist') = Len(hlist) + 1
                /\ SubSeq(hlist', 1, Len(hlist)) = hlist
                /\ hlist'[Len(hlist')].offset = hoff
                /\ hoff' >= hoff + 1
                /\ hoff' <= Len(hdata)

FileName(blob) ==
    <<blob.block_idx, blob.block_type, blob.offset, blob.payload_len, blob.sub_idx, blob.ext>>

(* C16: within one run of the walker no two write_blob calls produce the    *)
(* same file name: artifacts of different blocks differ in block_idx, and   *)
(* the artifacts one decoder writes for one block differ pairwise in the    *)
(* (sub_idx, ext) pair.                                                     *)
C16_FileNamesDistinct ==
    \A i, j \in 1..Len(wblobs) :
        i < j =>
            /\ FileName(wblobs[i]) # FileName(wblobs[j])
            /\ wblobs[i].offset # wblobs[j].offset
                   => wblobs[i].block_idx # wblobs[j].block_idx
            /\ wblobs[i].offset = wblobs[j].offset
                   => /\ wblobs[i].block_idx = wblobs[j].block_idx
                      /\ <<wblobs[i].sub_idx, wblobs[i].ext>>
                             # <<wblobs[j].sub_idx, wblobs[j].ext>>

C16_Witness ==
    /\ \E i, j \in 1..Len(wblobs) : wblobs[i].block_idx # wblobs[j].block_idx
    /\ \E i \in 1..Len(wblobs) : wblobs[i].ext = "wave_data.json"
    /\ \E i \in 1..Len(wblobs) : wblobs[i].ext = "decoded.json"

(* C17 (SpecVc).  Indices are the 0-based indices of the Python lists.      *)
(* The sum of the positive positions[j] for j < n.                          *)
RECURSIVE SumPositive(_, _)
SumPositive(pos, n) ==
    IF n <= 0 THEN 0
    ELSE SumPositive(pos, n - 1) + (IF pos[n] > 0 THEN pos[n] ELSE 0)

(* The index of the next positive entry after i, or -1 when i is the last. *)
NextPositive(pos, i) ==
    LET later == { j \in (i + 1)..(Len(pos) - 1) : pos[j + 1] > 0 }
    IN  IF later = {} THEN -1 ELSE CHOOSE j \in later : \A k \in later : j <= k

WaveParsed == vpc \in {"write", "returned"}

(* The slot of record i: its size, as the first loop leaves it in           *)
(* position_bytes, is the distance from its offset to the next positive     *)
(* entry's offset, or to the end of the wave region for the last one; the   *)
(* record's compressed_length is the slot less the length varint.           *)
SlotLaw(i) ==
    LET sl == Slots(vwave, vpos)
        nx == NextPositive(vpos, i)
        o  == vrecs[i + 1].offset
    IN  /\ sl.offs[i + 1] = o
        /\ sl.bytes[i + 1] = (IF nx = -1 THEN Len(vwave) ELSE vrecs[nx + 1].offset) - o
        /\ vrecs[i + 1].compressed_length =
               sl.bytes[i + 1] - read_uleb128(vwave, seek(Len(vwave), 0, o, SEEK_SET)).length

(* C17 as stated: for each i with positions[i] > 0 the record offset is     *)
(* (sum of the positive positions[j] for j < i) - 1, and the slot size is   *)
(* the distance to the next positive entry's offset, or len(wave_region) -  *)
(* offset_i for the last, so that the slots are contiguous and the last one *)
(* ends at the end of the wave region.                                      *)
C17_OffsetSumBefore ==
    WaveParsed =>
        \A i \in 0..(Len(vpos) - 1) :
            vpos[i + 1] > 0 =>
                /\ vrecs[i + 1].offset = SumPositive(vpos, i) - 1
                /\ SlotLaw(i)

(* C17 as the code has it: the running sum includes positions[i] itself,    *)
(* offset_i = (sum of the positive positions[j] for j <= i) - 1.            *)
C17_OffsetSumThrough ==
    WaveParsed =>
        \A i \in 0..(Len(vpos) - 1) :
            vpos[i + 1] > 0 =>
                /\ vrecs[i + 1].offset = SumPositive(vpos, i + 1) - 1
                /\ SlotLaw(i)

C17_Witness ==
    /\ WaveParsed
    /\ Len(vpos) >= 2
    /\ vpos[1] > 0 /\ vpos[2] > 0
    /\ vrecs[2].offset = 2
    /\ Len(vwave) = 5

(* C18: if the LZ4 result for any variable has a length different from the  *)
(* uncompressed_length of that variable's record, handle_vcdata fails with  *)
(* the error and writes no wave_data.json artifact.                         *)
C18_LengthMismatchIsFatal ==
    (\E i \in 1..Len(vrecs) : vrecs[i].lz4_error = LengthMismatch) =>
        /\ vpc \notin {"write", "returned"}
        /\ \A k \in 1..Len(vblobs) : vblobs[k].ext # "wave_data.json"

(* C19: the wave record list has exactly one record per position entry, in  *)
(* order, with var_idx = i; for positions[i] = v < 0 the record has type    *)
(* alias and names the aliased variable (-v) - 1, for positions[i] = 0 it   *)
(* has type no_change, and for positions[i] > 0 type has_data.              *)
C19_RecordPerPosition ==
    WaveParsed =>
        /\ Len(vrecs) = Len(vpos)
        /\ \A i \in 0..(Len(vpos) - 1) :
              /\ vrecs[i + 1].var_idx = i
              /\ vpos[i + 1] < 0 =>
                    /\ vrecs[i + 1].type = "alias"
                    /\ vrecs[i + 1].alias_of = (0 - vpos[i + 1]) - 1
              /\ vpos[i + 1] = 0 => vrecs[i + 1].type = "no_change"
              /\ vpos[i + 1] > 0 => vrecs[i + 1].type = "has_data"

(* C20.  The walker under the scheduling of a sequential program: the loop  *)
(* of extract_blocks keeps running until it breaks or an exception leaves   *)
(* it.                                                                      *)
SpecWalkerLive == WalkerSpecInit /\ [][WalkerNext]_vars /\ WF_vars(WalkerNext)

(* The file ends before the declared payload of the block is complete. *)
Truncated(fr) == fr.block_len >= 8 /\ ~WholeBlock(fr)

HasDecoder(fr) == fr.block_type \in DOMAIN BLOCKS

(* A truncated block that has a decoder is handed to it, once, with the     *)
(* bytes that were left; it is the last block, the file is used up, and no  *)
(* error is recorded unless the decoder raised one.                         *)
C20_State ==
    /\ wpos <= Len(wfile)
    /\ \A k \in 1..Len(wframes) :
          (Truncated(wframes[k]) /\ HasDecoder(wframes[k])) =>
              /\ Decoded(wframes[k])
              /\ wframes[k].got = Len(wfile) - (wframes[k].offset + 9)
              /\ k = Len(wframes)
              /\ wpos = Len(wfile)
              /\ wframes[k].outcome = "returned" => (wpc \in {"loop", "returned"} /\ werr = "")

(* An iteration stops the loop or moves the offset by at least 9 bytes, and *)
(* the iteration after a truncated block whose decoder returned is the      *)
(* break on remain < 9.                                                     *)
C20_Step ==
    wpc = "loop" =>
        /\ wpc' # "loop" \/ wpos' >= wpos + 9
        /\ (wframes # <<>> /\ Truncated(wframes[Len(wframes)]))
              => (wpc' = "returned" /\ wframes' = wframes /\ wblobs' = wblobs /\ werr' = "")

C21_OffsetWithinBuffer ==
    /\ 0 <= roff
    /\ roff <= Len(rdata)
    /\ rlast.op = "peek_bytes" =>
          /\ rlast.ok
          /\ roff = rlast.pre
          /\ Len(rlast.bytes) = Max(0, Min(rlast.width, Len(rdata) - roff))
          /\ \A k \in 1..Len(rlast.bytes) : rlast.bytes[k] = rdata[roff + k]

(* A seek past the end on a non-empty buffer left the offset at length. *)
C21_Witness ==
    /\ rlast.op = "seek"
    /\ rlast.ok
    /\ rlast.width = 9
    /\ rlast.pre > 0
    /\ Len(rdata) > 0
    /\ Len(rdata) < 9
    /\ roff = Len(rdata)

====
